---- MODULE Spec2Model ----
(***************************************************************************)
(* Model of src/src/App.js: the image analyser component.                  *)
(*                                                                         *)
(*  - UI state (useState): image, prompt, loading, error.                  *)
(*  - One "flow" per file selection: handleImageChange -> fileToBase64 ->  *)
(*    analyzeImage (signInAnonymously, backoff(fetch), response.json()).   *)
(*  - The retry helper backoff(fn, retries, delay) is modelled by the      *)
(*    operators BackoffCall / BackoffOnResolve / BackoffOnReject /         *)
(*    BackoffOnTimer over a record; the application uses them with         *)
(*    fn = fetch (Spec), and SpecBackoff drives them with an arbitrary     *)
(*    caller-supplied fn.                                                  *)
(***************************************************************************)
EXTENDS Integers, Sequences, FiniteSets, TLC

VARIABLES image, prompt, loading, error, flows, nflows, bk, r0, d0, clip

vars == <<image, prompt, loading, error, flows, nflows, bk, r0, d0, clip>>
uiVars == <<image, prompt, loading, error>>
appVars == <<image, prompt, loading, error, flows, nflows>>
helperVars == <<bk, r0, d0>>

-----------------------------------------------------------------------------
(* Bounds *)

MaxFlows == 2
MaxRetries == 5
MaxCopies == 2

(* Program constants *)

DefaultRetries == 5
DefaultDelay == 1000
RateLimitStatus == 429

AuthErrorMsg == "Error de autenticación. Por favor, inténtelo de nuevo."
GenericErrorMsg == "Ocurrió un error al analizar la imagen. Inténtelo de nuevo."
FallbackMsg == "No se pudo generar el prompt. Por favor, inténtelo de nuevo."

-----------------------------------------------------------------------------
(* Values exchanged with the environment *)

\* err.status of an error object that has no status property (undefined),
\* e.g. the TypeError fetch rejects with, or the Error thrown at line 111.
NoStatus == 0

NoImage == "null"
NoFile == "undefined"
Files == {"imgA", "imgB"}

Flows == 1..MaxFlows

\* Settlement value of a promise: kind "ok" is a fulfilment value, kind "err"
\* a rejection reason (an object; status is its .status property), id is the
\* number of the invocation of fn that produced it.
NoValue == [kind |-> "none", status |-> NoStatus, id |-> 0]
Value(n, s) == [kind |-> "ok", status |-> s, id |-> n]
Err(n, s) == [kind |-> "err", status |-> s, id |-> n]

\* HTTP statuses the generation endpoint answers with.
HttpStatuses == {200, 429, 500}
\* .status of the rejection reasons a caller-supplied fn fails with.
ErrStatuses == {RateLimitStatus, 500, NoStatus}
\* Initial delays a caller passes to backoff.
Delays == {DefaultDelay, 1, 250}

\* Response.ok
ResponseOk(status) == status >= 200 /\ status <= 299

\* Text the endpoint generates for an image.
GenText(file) == IF file = "imgA" THEN "prompt for imgA" ELSE "prompt for imgB"

\* Parsed response bodies: hasText is whether
\* candidates[0].content.parts[0].text exists, text its value.
Body(hasText, text) == [json |-> TRUE, hasText |-> hasText, text |-> text]
NoBody == [json |-> FALSE, hasText |-> FALSE, text |-> ""]
Bodies(file) == {Body(TRUE, GenText(file)), Body(TRUE, ""), Body(FALSE, "")}
AllBodies == UNION {Bodies(file) : file \in Files}

-----------------------------------------------------------------------------
(* copyPromptToClipboard, lines 129-158 *)

CopiedMsg == "Prompt copiado al portapapeles!"
CopyErrorMsg == "Error al copiar el prompt. Inténtelo de nuevo."

Copies == 1..MaxCopies

\* Outcomes of document.execCommand('copy'): it returns true (copied),
\* returns false (not copied), or throws.
ExecOutcomes == {"copied", "notcopied", "threw"}

\* One invocation of copyPromptToClipboard.
\*   pc       "idle" | "writing" (writeText pending) | "done"
\*   text     the prompt of the render the handler belongs to
\*   primary  "none" | "unavailable" | "ok" | "failed"
\*   fallback "none" (not run) or the outcome of execCommand
\*   alerts   the alert() messages shown by the invocation, in order
NewCopy ==
  [pc |-> "idle", text |-> "", primary |-> "none", fallback |-> "none",
   alerts |-> <<>>]

\* inv: the invocations; n: how many were started; sys: the text on the
\* system clipboard ("" before any copy).
NewClip == [inv |-> [c \in Copies |-> NewCopy], n |-> 0, sys |-> ""]

\* Variant of copyToClipboardFallback: the catch block shows no alert.
copyToClipboardFallback_Silent(cp, exec) ==
  [cp EXCEPT !.pc = "done", !.fallback = exec,
             !.alerts = IF exec = "threw" THEN cp.alerts
                        ELSE Append(cp.alerts, CopiedMsg)]

\* lines 131-144: copyToClipboardFallback(text)
copyToClipboardFallback(cp, exec) ==
  [cp EXCEPT !.pc = "done", !.fallback = exec,
             !.alerts = Append(cp.alerts,
                               IF exec = "threw" THEN CopyErrorMsg
                               ELSE CopiedMsg)]

\* The system clipboard after the invocation cp ran execCommand.
SysAfterFallback(sys, cp, exec) == IF exec = "copied" THEN cp.text ELSE sys


\* State of one top-level backoff invocation.
\*   st       "new" | "inflight" | "waiting" | "resolved" | "rejected"
\*   retries  the retries argument of the current (innermost) invocation
\*   delay    the delay argument of the current (innermost) invocation
\*   calls    number of invocations of fn so far
\*   inflight number of invocations of fn not yet settled
\*   waits    the delays of the timers started so far, in order
\*   waited   sum of the delays of the timers that have fired
\*   hist     settlement of each invocation of fn, in order
\*   out      settlement of the top-level promise
NewBackoff ==
  [st |-> "new", retries |-> 0, delay |-> 0, calls |-> 0, inflight |-> 0,
   waits |-> <<>>, waited |-> 0, hist |-> <<>>, out |-> NoValue]

\* line 66: the executor invokes fn()
BackoffCall(retries, delay) ==
  [NewBackoff EXCEPT !.st = "inflight", !.retries = retries, !.delay = delay,
                     !.calls = 1, !.inflight = 1]

\* line 67: fn().then(resolve)
BackoffOnResolve(b, v) ==
  [b EXCEPT !.st = "resolved", !.inflight = b.inflight - 1,
            !.hist = Append(b.hist, v), !.out = v]

\* Variant of ShouldRetry: retries while retries >= 0 (one retry too many).
ShouldRetry_Inclusive(retries, err) ==
  retries >= 0 /\ err.status = RateLimitStatus

\* Variant of ShouldRetry: retries on any error while retries remain.
ShouldRetry_AnyError(retries, err) == retries > 0

\* line 69: retries > 0 && err.status === 429
ShouldRetry(retries, err) == retries > 0 /\ err.status = RateLimitStatus

\* Variant of NextDelay: linear instead of exponential growth.
NextDelay_Additive(delay) == delay + DefaultDelay

\* Variant of NextDelay: the delay is not doubled.
NextDelay_Constant(delay) == delay

\* line 72: delay * 2
NextDelay(delay) == delay * 2

\* Variant of BackoffOnReject: the timer is started but not awaited, the next
\* invocation of fn starts at once.
BackoffOnReject_NoAwait(b, err) ==
  IF ShouldRetry(b.retries, err)
    THEN [b EXCEPT !.st = "inflight", !.retries = b.retries - 1,
                   !.delay = NextDelay(b.delay), !.calls = b.calls + 1,
                   !.hist = Append(b.hist, err),
                   !.waits = Append(b.waits, b.delay)]
    ELSE [b EXCEPT !.st = "rejected", !.inflight = b.inflight - 1,
                   !.hist = Append(b.hist, err), !.out = err]

\* Variant of BackoffOnReject: the else branch of lines 73-75 is missing, an
\* error that is not retried is swallowed and the promise stays pending.
BackoffOnReject_Swallow(b, err) ==
  IF ShouldRetry(b.retries, err)
    THEN [b EXCEPT !.st = "waiting", !.inflight = b.inflight - 1,
                   !.hist = Append(b.hist, err),
                   !.waits = Append(b.waits, b.delay)]
    ELSE [b EXCEPT !.st = "pending", !.inflight = b.inflight - 1,
                   !.hist = Append(b.hist, err)]

\* lines 68-76: the catch handler, up to the await of the timer
BackoffOnReject(b, err) ==
  IF ShouldRetry(b.retries, err)
    THEN [b EXCEPT !.st = "waiting", !.inflight = b.inflight - 1,
                   !.hist = Append(b.hist, err),
                   !.waits = Append(b.waits, b.delay)]
    ELSE [b EXCEPT !.st = "rejected", !.inflight = b.inflight - 1,
                   !.hist = Append(b.hist, err), !.out = err]

\* lines 70-72: the timer fires, backoff(fn, retries - 1, delay * 2) invokes fn
BackoffOnTimer(b) ==
  [b EXCEPT !.st = "inflight", !.retries = b.retries - 1,
            !.delay = NextDelay(b.delay), !.calls = b.calls + 1,
            !.inflight = b.inflight + 1, !.waited = b.waited + b.delay]

-----------------------------------------------------------------------------
(* The component: lines 26-124 *)

\* pc of a flow:
\*   "idle"     not started
\*   "encoding" awaiting fileToBase64 (line 41)
\*   "uncaught" handleImageChange's promise rejected, nothing handles it
\*   "signin"   awaiting signInAnonymously (line 55)
\*   "fetch"    awaiting backoff(...) (line 102)
\*   "json"     awaiting response.json() (line 114)
\*   "done"     analyzeImage returned
\* file is the selected file; signIns, signedIn, authFailed, body and doneAt
\* record what the flow has done so far; alone records that, when the file
\* was selected, an earlier flow existed and every earlier flow had ended.
NewFlow ==
  [pc |-> "idle", file |-> NoFile, signIns |-> 0, signedIn |-> FALSE,
   authFailed |-> FALSE, bk |-> NewBackoff, body |-> NoBody, doneAt |-> 0,
   alone |-> FALSE]

\* Rank of the next analyzeImage call to return, in order of return
\* (1 for the first); doneAt of a flow is the rank at which its call returned.
NextDone(fs) == 1 + Cardinality({g \in DOMAIN fs : fs[g].doneAt > 0})

\* Variant of ExtractText: no fallback for a missing or empty text.
ExtractText_NoFallback(body) == body.text

\* line 115
ExtractText(body) ==
  IF body.hasText /\ body.text # "" THEN body.text ELSE FallbackMsg

Init ==
  /\ image = NoImage
  /\ prompt = ""
  /\ loading = FALSE
  /\ error = ""
  /\ flows = [f \in Flows |-> NewFlow]
  /\ nflows = 0
  /\ bk = NewBackoff
  /\ r0 = 0
  /\ d0 = DefaultDelay
  /\ clip = NewClip

\* The flow fl has ended: analyzeImage returned or handleImageChange threw.
FlowEnded(fl) == fl.pc \in {"done", "uncaught"}

\* lines 36-41: handleImageChange up to the await of fileToBase64
handleImageChange(file) ==
  /\ nflows < MaxFlows
  /\ IF file = NoFile
       THEN UNCHANGED appVars
       ELSE /\ image' = file
            /\ prompt' = ""
            /\ nflows' = nflows + 1
            /\ flows' = [flows EXCEPT ![nflows + 1] =
                           [NewFlow EXCEPT !.pc = "encoding", !.file = file,
                              !.alone = /\ nflows >= 1
                                        /\ \A g \in 1..nflows :
                                             FlowEnded(flows[g])]]
            /\ UNCHANGED <<loading, error>>
  /\ UNCHANGED <<helperVars, clip>>

\* Variant of fileToBase64Resolve: signInAnonymously is called but not
\* awaited, the endpoint call starts at once.
fileToBase64Resolve_NoSignInAwait(f) ==
  /\ flows[f].pc = "encoding"
  /\ loading' = TRUE
  /\ error' = ""
  /\ flows' = [flows EXCEPT ![f].pc = "fetch",
                            ![f].signIns = flows[f].signIns + 1,
                            ![f].bk = BackoffCall(DefaultRetries, DefaultDelay)]
  /\ UNCHANGED <<image, prompt, nflows>>
  /\ UNCHANGED <<helperVars, clip>>

\* line 20 (reader.onload), then lines 42, 50-55: analyzeImage up to the
\* await of signInAnonymously
fileToBase64Resolve(f) ==
  /\ flows[f].pc = "encoding"
  /\ loading' = TRUE
  /\ error' = ""
  /\ flows' = [flows EXCEPT ![f].pc = "signin",
                            ![f].signIns = flows[f].signIns + 1]
  /\ UNCHANGED <<image, prompt, nflows>>
  /\ UNCHANGED <<helperVars, clip>>

\* line 21 (reader.onerror): the await at line 41 throws, handleImageChange
\* has no try/catch
fileToBase64Reject(f) ==
  /\ flows[f].pc = "encoding"
  /\ flows' = [flows EXCEPT ![f].pc = "uncaught"]
  /\ UNCHANGED <<image, prompt, loading, error, nflows>>
  /\ UNCHANGED <<helperVars, clip>>

\* lines 55, 64-108: sign-in succeeded, backoff(() => fetch(...)) is called
signInResolve(f) ==
  /\ flows[f].pc = "signin"
  /\ flows' = [flows EXCEPT ![f].pc = "fetch", ![f].signedIn = TRUE,
                            ![f].bk = BackoffCall(DefaultRetries, DefaultDelay)]
  /\ UNCHANGED <<image, prompt, loading, error, nflows>>
  /\ UNCHANGED <<helperVars, clip>>

\* Variant of signInReject: the return of line 60 is missing, the endpoint
\* call follows.
signInReject_NoReturn(f) ==
  /\ flows[f].pc = "signin"
  /\ error' = AuthErrorMsg
  /\ loading' = FALSE
  /\ flows' = [flows EXCEPT ![f].pc = "fetch", ![f].authFailed = TRUE,
                            ![f].bk = BackoffCall(DefaultRetries, DefaultDelay)]
  /\ UNCHANGED <<image, prompt, nflows>>
  /\ UNCHANGED <<helperVars, clip>>

\* lines 56-61
signInReject(f) ==
  /\ flows[f].pc = "signin"
  /\ error' = AuthErrorMsg
  /\ loading' = FALSE
  /\ flows' = [flows EXCEPT ![f].pc = "done", ![f].authFailed = TRUE,
                            ![f].doneAt = NextDone(flows)]
  /\ UNCHANGED <<image, prompt, nflows>>
  /\ UNCHANGED <<helperVars, clip>>

\* fetch fulfils with a Response whatever the HTTP status (lines 103-107);
\* line 67 resolves backoff with it; lines 110-123.
fetchResolve(f, status) ==
  /\ flows[f].pc = "fetch"
  /\ flows[f].bk.st = "inflight"
  /\ LET b == BackoffOnResolve(flows[f].bk, Value(flows[f].bk.calls, status))
     IN IF ResponseOk(b.out.status)
          THEN /\ flows' = [flows EXCEPT ![f].pc = "json", ![f].bk = b]
               /\ UNCHANGED <<error, loading>>
          ELSE /\ flows' = [flows EXCEPT ![f].pc = "done", ![f].bk = b,
                                         ![f].doneAt = NextDone(flows)]
               /\ error' = GenericErrorMsg
               /\ loading' = FALSE
  /\ UNCHANGED <<image, prompt, nflows>>
  /\ UNCHANGED <<helperVars, clip>>

\* fetch rejects (network failure) with a TypeError, which has no status;
\* lines 68-76, then lines 118-123 when backoff rejects.
fetchReject(f) ==
  /\ flows[f].pc = "fetch"
  /\ flows[f].bk.st = "inflight"
  /\ LET b == BackoffOnReject(flows[f].bk, Err(flows[f].bk.calls, NoStatus))
     IN IF b.st = "rejected"
          THEN /\ flows' = [flows EXCEPT ![f].pc = "done", ![f].bk = b,
                                         ![f].doneAt = NextDone(flows)]
               /\ error' = GenericErrorMsg
               /\ loading' = FALSE
          ELSE /\ flows' = [flows EXCEPT ![f].bk = b]
               /\ UNCHANGED <<error, loading>>
  /\ UNCHANGED <<image, prompt, nflows>>
  /\ UNCHANGED <<helperVars, clip>>

\* Variant of jsonResolve: a result is displayed only when it belongs to the
\* latest selection (a stale response is dropped).
jsonResolve_DropStale(f, body) ==
  /\ flows[f].pc = "json"
  /\ body \in Bodies(flows[f].file)
  /\ prompt' = IF f = nflows THEN ExtractText(body) ELSE prompt
  /\ loading' = FALSE
  /\ flows' = [flows EXCEPT ![f].pc = "done", ![f].body = body,
                            ![f].doneAt = NextDone(flows)]
  /\ UNCHANGED <<image, error, nflows>>
  /\ UNCHANGED <<helperVars, clip>>

\* lines 114-116, 121-123: the body parses
jsonResolve(f, body) ==
  /\ flows[f].pc = "json"
  /\ body \in Bodies(flows[f].file)
  /\ prompt' = ExtractText(body)
  /\ loading' = FALSE
  /\ flows' = [flows EXCEPT ![f].pc = "done", ![f].body = body,
                            ![f].doneAt = NextDone(flows)]
  /\ UNCHANGED <<image, error, nflows>>
  /\ UNCHANGED <<helperVars, clip>>

\* Variant of jsonReject: the finally block of lines 121-123 is missing.
jsonReject_NoFinally(f) ==
  /\ flows[f].pc = "json"
  /\ error' = GenericErrorMsg
  /\ flows' = [flows EXCEPT ![f].pc = "done", ![f].doneAt = NextDone(flows)]
  /\ UNCHANGED <<image, prompt, loading, nflows>>
  /\ UNCHANGED <<helperVars, clip>>

\* line 114 throws (the body is not JSON, or reading it fails); lines 118-123
jsonReject(f) ==
  /\ flows[f].pc = "json"
  /\ error' = GenericErrorMsg
  /\ loading' = FALSE
  /\ flows' = [flows EXCEPT ![f].pc = "done", ![f].doneAt = NextDone(flows)]
  /\ UNCHANGED <<image, prompt, nflows>>
  /\ UNCHANGED <<helperVars, clip>>

Next ==
  \/ \E file \in Files \cup {NoFile} : handleImageChange(file)
  \/ \E f \in Flows : fileToBase64Resolve(f)
  \/ \E f \in Flows : fileToBase64Reject(f)
  \/ \E f \in Flows : signInResolve(f)
  \/ \E f \in Flows : signInReject(f)
  \/ \E f \in Flows, s \in HttpStatuses : fetchResolve(f, s)
  \/ \E f \in Flows : fetchReject(f)
  \/ \E f \in Flows, body \in AllBodies : jsonResolve(f, body)
  \/ \E f \in Flows : jsonReject(f)

Spec == Init /\ [][Next]_vars

\* The component when every pending sign-in, endpoint call and body read of a
\* started analyzeImage call eventually settles (the browser delivers the
\* settlement of each awaited promise to the event loop).
SpecFair ==
  /\ Init
  /\ [][Next]_vars
  /\ \A f \in Flows :
       /\ WF_vars(signInResolve(f) \/ signInReject(f))
       /\ WF_vars((\E s \in HttpStatuses : fetchResolve(f, s)) \/ fetchReject(f))
       /\ WF_vars((\E body \in AllBodies : jsonResolve(f, body)) \/ jsonReject(f))

-----------------------------------------------------------------------------
(* The copy button, lines 129-158 and 191-203 *)

\* Prompts the component can display.
Prompts == {GenText(file) : file \in Files} \cup {FallbackMsg}

\* A state in which the copy button is rendered (line 191): a prompt is
\* displayed and nothing is loading.
InitClipboard ==
  /\ image \in Files
  /\ prompt \in Prompts
  /\ loading = FALSE
  /\ error = ""
  /\ flows = [f \in Flows |-> NewFlow]
  /\ nflows = 0
  /\ bk = NewBackoff
  /\ r0 = 0
  /\ d0 = DefaultDelay
  /\ clip = NewClip

\* lines 146-157: the button is clicked; available is
\* navigator.clipboard && navigator.clipboard.writeText
copyPromptToClipboard(available, exec) ==
  /\ clip.n < MaxCopies
  /\ ~loading /\ prompt # ""
  /\ LET c == clip.n + 1
         cp == [NewCopy EXCEPT !.text = prompt]
     IN IF available
          THEN clip' = [clip EXCEPT !.n = c,
                          !.inv[c] = [cp EXCEPT !.pc = "writing"]]
          ELSE clip' = [clip EXCEPT !.n = c,
                          !.inv[c] = copyToClipboardFallback(
                                       [cp EXCEPT !.primary = "unavailable"], exec),
                          !.sys = SysAfterFallback(clip.sys, cp, exec)]
  /\ UNCHANGED <<appVars, helperVars>>

\* lines 148-150: writeText fulfils
writeTextResolve(c) ==
  /\ clip.inv[c].pc = "writing"
  /\ clip' = [clip EXCEPT !.inv[c].pc = "done", !.inv[c].primary = "ok",
                          !.inv[c].alerts = Append(clip.inv[c].alerts, CopiedMsg),
                          !.sys = clip.inv[c].text]
  /\ UNCHANGED <<appVars, helperVars>>

\* lines 151-154: writeText rejects
writeTextReject(c, exec) ==
  /\ clip.inv[c].pc = "writing"
  /\ clip' = [clip EXCEPT
                !.inv[c] = copyToClipboardFallback(
                             [clip.inv[c] EXCEPT !.primary = "failed"], exec),
                !.sys = SysAfterFallback(clip.sys, clip.inv[c], exec)]
  /\ UNCHANGED <<appVars, helperVars>>

NextClipboard ==
  \/ \E available \in BOOLEAN, exec \in ExecOutcomes :
       copyPromptToClipboard(available, exec)
  \/ \E c \in Copies : writeTextResolve(c)
  \/ \E c \in Copies, exec \in ExecOutcomes : writeTextReject(c, exec)

SpecClipboard == InitClipboard /\ [][NextClipboard]_vars

-----------------------------------------------------------------------------
(* The retry helper with a caller-supplied fn *)

InitBackoff ==
  /\ image = NoImage
  /\ prompt = ""
  /\ loading = FALSE
  /\ error = ""
  /\ flows = [f \in Flows |-> NewFlow]
  /\ nflows = 0
  /\ bk = NewBackoff
  /\ r0 \in 0..MaxRetries
  /\ d0 \in Delays
  /\ clip = NewClip

\* backoff(fn, r0, d0) is called
backoffCall ==
  /\ bk.st = "new"
  /\ bk' = BackoffCall(r0, d0)
  /\ UNCHANGED <<r0, d0>>
  /\ UNCHANGED <<appVars, clip>>

\* the pending invocation of fn fulfils
fnResolve ==
  /\ bk.st = "inflight"
  /\ bk' = BackoffOnResolve(bk, Value(bk.calls, 200))
  /\ UNCHANGED <<r0, d0>>
  /\ UNCHANGED <<appVars, clip>>

\* the pending invocation of fn rejects
fnReject(status) ==
  /\ bk.st = "inflight"
  /\ bk' = BackoffOnReject(bk, Err(bk.calls, status))
  /\ UNCHANGED <<r0, d0>>
  /\ UNCHANGED <<appVars, clip>>

\* the timer of line 70 fires
timerFire ==
  /\ bk.st = "waiting"
  /\ bk' = BackoffOnTimer(bk)
  /\ UNCHANGED <<r0, d0>>
  /\ UNCHANGED <<appVars, clip>>

NextBackoff ==
  \/ backoffCall
  \/ fnResolve
  \/ \E s \in ErrStatuses : fnReject(s)
  \/ timerFire

SpecBackoff == InitBackoff /\ [][NextBackoff]_vars

\* The helper when backoff is called, every invocation of fn settles and
\* every timer fires.
SpecBackoffFair ==
  /\ InitBackoff
  /\ [][NextBackoff]_vars
  /\ WF_vars(backoffCall)
  /\ WF_vars(fnResolve \/ \E s \in ErrStatuses : fnReject(s))
  /\ WF_vars(timerFire)

-----------------------------------------------------------------------------
(* Properties of the retry helper (SpecBackoff) *)

\* A 429 signal: a rejection whose status is 429.
IsRateLimit(v) == v.kind = "err" /\ v.status = RateLimitStatus

AllRateLimit(h) == \A i \in 1..Len(h) : IsRateLimit(h[i])

\* fn failed with a 429 signal k times, then succeeded.
FailsThenSucceeds(h, k) ==
  /\ Len(h) = k + 1
  /\ \A i \in 1..k : IsRateLimit(h[i])
  /\ h[k + 1].kind = "ok"

RECURSIVE SumSeq(_)
SumSeq(s) == IF s = <<>> THEN 0 ELSE Head(s) + SumSeq(Tail(s))

\* C2: when fn fails with a 429 signal on its first k invocations
\* (k <= retries) and succeeds on invocation k+1, backoff is resolved with
\* that result after exactly k+1 invocations, having waited
\* delay * (2^k - 1) in total, in k waits.
C2_ResolvesAfterKRetries ==
  \A k \in 0..r0 :
    FailsThenSucceeds(bk.hist, k) =>
      /\ bk.st = "resolved"
      /\ bk.out = bk.hist[k + 1]
      /\ bk.calls = k + 1
      /\ Len(bk.waits) = k
      /\ bk.waited = d0 * (2^k - 1)
      /\ SumSeq(bk.waits) = d0 * (2^k - 1)

C2_Witness ==
  /\ bk.st = "resolved"
  /\ FailsThenSucceeds(bk.hist, 3)
  /\ bk.waited = 7 * d0

\* C3: when fn fails with a 429 signal on every invocation, fn is invoked
\* exactly r0+1 times, then backoff rejects with the error of the last
\* invocation; it never resolves and does not settle earlier.
C3_ExhaustsRetries ==
  AllRateLimit(bk.hist) =>
    /\ bk.calls <= r0 + 1
    /\ Len(bk.hist) <= r0 + 1
    /\ bk.st # "resolved"
    /\ bk.st = "rejected" <=> (Len(bk.hist) = r0 + 1)
    /\ bk.st = "rejected" =>
         /\ bk.calls = r0 + 1
         /\ Len(bk.waits) = r0
         /\ bk.out = bk.hist[r0 + 1]
         /\ bk.out.id = r0 + 1

C3_Witness ==
  /\ r0 = 3
  /\ bk.st = "rejected"
  /\ AllRateLimit(bk.hist)
  /\ bk.calls = 4

C5_DelaysDouble ==
  \A i \in 1..Len(bk.waits) :
    /\ bk.waits[i] = d0 * 2^(i - 1)
    /\ i > 1 => bk.waits[i] = 2 * bk.waits[i - 1]

C5_Witness ==
  /\ d0 = DefaultDelay
  /\ Len(bk.waits) = 4
  /\ bk.waits[4] = 8000

\* C6: at most one invocation of fn is in flight, and a new invocation
\* starts only from the initial call or after the previous invocation failed
\* with a 429 signal and the timer started for it has fired.
C6_Sequential ==
  [][ /\ bk'.inflight \in {0, 1}
      /\ bk'.inflight = 1 <=> bk'.st = "inflight"
      /\ bk'.calls # bk.calls =>
           /\ bk'.calls = bk.calls + 1
           /\ \/ bk.st = "new" /\ bk.calls = 0
              \/ /\ bk.st = "waiting"
                 /\ bk.inflight = 0
                 /\ Len(bk.hist) = bk.calls
                 /\ IsRateLimit(bk.hist[bk.calls])
                 /\ Len(bk.waits) = bk.calls
                 /\ bk'.waited = bk.waited + bk.waits[bk.calls]
                 /\ bk'.waited = SumSeq(bk.waits) ]_vars

C6_Witness ==
  /\ bk.st = "inflight"
  /\ bk.calls = 3
  /\ bk.inflight = 1
  /\ bk.waited = 3 * d0

\* The top-level promise of backoff is settled.
Settled(b) == b.st \in {"resolved", "rejected"}

-----------------------------------------------------------------------------
(* Properties of the component (Spec) *)

\* No flow ever waits in backoff: fetch never rejects with a status, so the
\* timer of line 70 is never started by the component.
NoFlowWaits == \A f \in Flows : flows[f].bk.st # "waiting" /\ flows[f].bk.waits = <<>>

\* The endpoint answered HTTP 429 to every call of the flow (at least one).
AllHttp429(h) ==
  /\ Len(h) >= 1
  /\ \A i \in 1..Len(h) : h[i].kind = "ok" /\ h[i].status = RateLimitStatus

\* C1: for a finished request to which the endpoint answered HTTP 429 on
\* every call, exactly DefaultRetries + 1 = 6 calls were made.
C1_SixCallsOn429 ==
  \A f \in Flows :
    (flows[f].pc = "done" /\ AllHttp429(flows[f].bk.hist)) =>
      flows[f].bk.calls = DefaultRetries + 1

\* The flow fl has ended in a failure.
FlowFailed(fl) ==
  \/ fl.pc = "uncaught"
  \/ fl.authFailed
  \/ fl.pc = "done" /\ fl.bk.st = "rejected"
  \/ fl.pc = "done" /\ fl.bk.st = "resolved" /\ ~ResponseOk(fl.bk.out.status)
  \/ fl.pc = "done" /\ fl.bk.st = "resolved" /\ ~fl.body.json

\* C7: when the sign-in of a request fails, the request never calls the
\* endpoint and signs in exactly once; the failing step displays the
\* authentication error, leaves the prompt unchanged and clears loading.
C7_AuthFailure ==
  [][ \A f \in Flows :
        /\ flows'[f].authFailed =>
             /\ flows'[f].bk.calls = 0
             /\ flows'[f].signIns = 1
             /\ flows'[f].pc = "done"
        /\ (~flows[f].authFailed /\ flows'[f].authFailed) =>
             /\ error' = AuthErrorMsg
             /\ prompt' = prompt
             /\ loading' = FALSE ]_vars

C7_Witness ==
  \E f \in Flows :
    /\ flows[f].authFailed
    /\ flows[f].pc = "done"
    /\ error = AuthErrorMsg
    /\ loading = FALSE

\* C8: a request calls the endpoint only after its own sign-in has
\* succeeded, and every started analyzeImage call has signed in exactly once.
C8_SignInFirst ==
  \A f \in Flows :
    /\ flows[f].bk.calls > 0 => flows[f].signedIn
    /\ flows[f].pc \in {"signin", "fetch", "json", "done"} => flows[f].signIns = 1
    /\ flows[f].pc \in {"idle", "encoding", "uncaught"} => flows[f].signIns = 0

C8_Witness ==
  \E f \in Flows :
    /\ flows[f].pc = "done"
    /\ flows[f].bk.calls = 1
    /\ flows[f].signedIn
    /\ flows[f].signIns = 1

C10_EveryFailureReported ==
  [][ \A f \in Flows :
        (~FlowFailed(flows[f]) /\ FlowFailed(flows'[f])) =>
          /\ flows'[f].pc # "uncaught"
          /\ error' # "" ]_vars

-----------------------------------------------------------------------------
(* Properties of the component, continued *)

\* The analyzeImage call of flow fl is between its start and its completion.
FlowActive(fl) == fl.pc \in {"signin", "fetch", "json"}

NoFlowActive == \A f \in Flows : ~FlowActive(flows[f])

\* C11: when sign-in, endpoint call and body read settle, every started
\* analyzeImage call ends with loading false, whatever its outcome, and
\* loading is false whenever no call is in progress (it stays false after
\* the flow ends).
C11_ReturnsToIdle ==
  /\ \A f \in Flows :
       FlowActive(flows[f]) ~> (flows[f].pc = "done" /\ loading = FALSE)
  /\ [](NoFlowActive => loading = FALSE)

C11_Witness ==
  /\ NoFlowActive
  /\ loading = FALSE
  /\ \E f \in Flows : flows[f].pc = "done" /\ flows[f].bk.st = "rejected"
  /\ \E f \in Flows : flows[f].pc = "done" /\ flows[f].authFailed

\* Every selection made so far has had its analyzeImage call return.
AllReturned == nflows >= 1 /\ \A f \in 1..nflows : flows[f].pc = "done"

\* The flow whose analyzeImage call returned last.
LastDone == CHOOSE f \in Flows : flows[f].doneAt = NextDone(flows) - 1

ProducedPrompt(fl) ==
  IF fl.pc = "done" /\ fl.body.json THEN ExtractText(fl.body) ELSE ""

ProducedError(fl) ==
  IF fl.pc = "done" /\ fl.authFailed THEN AuthErrorMsg
  ELSE IF fl.pc = "done" /\ ~fl.body.json THEN GenericErrorMsg
  ELSE ""

\* The latest selection was made when every earlier request had ended.
LatestAlone == nflows >= 2 /\ flows[nflows].alone

\* After such a selection the prompt is the new request's own (empty until
\* it produces one), and once analyzeImage has started the error message is
\* the new request's own.
C13_DiscardedOnceStarted ==
  LatestAlone =>
    /\ prompt = ProducedPrompt(flows[nflows])
    /\ flows[nflows].pc \in {"signin", "fetch", "json", "done"} =>
         error = ProducedError(flows[nflows])

\* C13: a selection made after the earlier requests have ended discards the
\* prior result: the prompt shows only what the new request produced, and
\* once the new flow is past encoding so does the error message.
C13_PriorResultDiscarded ==
  LatestAlone =>
    /\ prompt = ProducedPrompt(flows[nflows])
    /\ flows[nflows].pc # "encoding" => error = ProducedError(flows[nflows])

\* The first answer of the endpoint call is not retryable: a response with
\* a non-2xx status other than 429, or a network failure (no 429 status).
FirstAnswerFinal(h) ==
  /\ Len(h) >= 1
  /\ h[1].status # RateLimitStatus
  /\ \/ h[1].kind = "ok" /\ ~ResponseOk(h[1].status)
     \/ h[1].kind = "err"

\* C15: when the first endpoint call of a request gets a non-2xx status
\* other than 429 or fails in the network, that step ends the request after
\* exactly one call and no wait, displays the generic failure message,
\* leaves the prompt as it was and clears loading; the request never calls
\* the endpoint again.
C15_FailsWithoutRetry ==
  [][ \A f \in Flows :
        /\ (flows[f].pc = "fetch" /\ FirstAnswerFinal(flows'[f].bk.hist)) =>
             /\ flows'[f].pc = "done"
             /\ error' = GenericErrorMsg
             /\ prompt' = prompt
             /\ loading' = FALSE
        /\ FirstAnswerFinal(flows'[f].bk.hist) =>
             /\ flows'[f].bk.calls = 1
             /\ flows'[f].bk.waits = <<>>
             /\ Len(flows'[f].bk.hist) = 1
             /\ ~flows'[f].body.json ]_vars

C15_Witness ==
  \E f \in Flows :
    /\ flows[f].pc = "done"
    /\ flows[f].bk.hist = <<Err(1, NoStatus)>>
    /\ flows[f].bk.calls = 1
    /\ error = GenericErrorMsg
    /\ loading = FALSE

\* C17: loading is true exactly when at least one analyzeImage call is
\* between its start and its completion.
C17_LoadingTracksWork ==
  loading = (\E f \in Flows : FlowActive(flows[f]))

\* The half of C17 that the code keeps: loading is false whenever no
\* analyzeImage call is in progress, and true while the only started call
\* is in progress.
LoadingFalseWhenIdle ==
  /\ NoFlowActive => loading = FALSE
  /\ (nflows = 1 /\ FlowActive(flows[1])) => loading = TRUE

\* C18: when no request is in flight, the error message and the prompt are
\* not both non-empty.
C18_PromptOrError ==
  (\A f \in Flows : flows[f].pc \in {"idle", "done", "uncaught"}) =>
    ~(error # "" /\ prompt # "")

\* Without overlap C18 holds: when the latest selection was made after every
\* earlier request had ended, or is the first one, prompt and error message
\* are not both non-empty.
PromptOrErrorWithoutOverlap ==
  (nflows = 1 \/ LatestAlone) => ~(error # "" /\ prompt # "")

-----------------------------------------------------------------------------
(* Properties of the copy button (SpecClipboard) *)

\* C14: an invocation of copyPromptToClipboard that has ended has shown
\* exactly one alert (none before it ends): the confirmation when the
\* primary write succeeded, otherwise the alert of the fallback; the fallback
\* runs only when the primary mechanism is unavailable or has failed, and
\* the failure alert is shown only when the primary did not succeed and the
\* fallback failed too.
C14_OneNotification ==
  \A c \in Copies :
    LET cp == clip.inv[c] IN
      /\ cp.pc # "done" => cp.alerts = <<>>
      /\ cp.pc = "done" =>
           /\ Len(cp.alerts) = 1
           /\ cp.alerts[1] \in {CopiedMsg, CopyErrorMsg}
           /\ cp.primary = "ok" =>
                cp.alerts[1] = CopiedMsg /\ cp.fallback = "none"
           /\ cp.primary # "ok" => cp.fallback \in ExecOutcomes
           /\ cp.fallback # "none" => cp.primary \in {"unavailable", "failed"}
           /\ cp.alerts[1] = CopyErrorMsg =>
                cp.primary \in {"unavailable", "failed"} /\ cp.fallback = "threw"

C14_Witness ==
  /\ clip.n = 2
  /\ clip.inv[1].pc = "done"
  /\ clip.inv[1].primary = "failed"
  /\ clip.inv[1].fallback = "threw"
  /\ clip.inv[1].alerts = <<CopyErrorMsg>>
  /\ clip.inv[2].pc = "done"
  /\ clip.inv[2].primary = "ok"
  /\ clip.inv[2].alerts = <<CopiedMsg>>

====
